---- MODULE Spec2Model ----
(***************************************************************************)
(* The unary authorization interceptor of common/authorization             *)
(* (interceptor.go).  One behaviour of Spec is one call handled by         *)
(* interceptor.Interceptor: the configuration `a` and the call's inputs    *)
(* are drawn in Init, the actions are the stretches of the handler between *)
(* its calls to the pluggable collaborators (Audience, GetClaims,          *)
(* Authorize, the next handler), and every collaborator call, log entry    *)
(* and metric recording is appended to an observation variable.            *)
(*                                                                         *)
(* Go pointers are modelled as options: <<>> is nil, <<x>> points to x.    *)
(* Claims are opaque to the interceptor and are modelled by name, "nil"    *)
(* being the nil *Claims.  Errors are records; NilError is the nil error.  *)
(*                                                                         *)
(* The module also holds the ringpop service wrapper (service.start,       *)
(* service.bootstrap, service.stop), whose behaviours are those of SvcSpec:*)
(* a number of concurrent callers of start and of stop on one service.     *)
(* Spec leaves the service as constructed; SvcSpec leaves the interceptor  *)
(* at the start of one call.                                               *)
(***************************************************************************)
EXTENDS Integers, Sequences, FiniteSets, TLC

VARIABLES
    a,              \* the interceptor struct (immutable configuration)
    ctx0,           \* the incoming context: metadata, peer, attached values
    req,            \* the request payload
    info,           \* *grpc.UnaryServerInfo
    mapperRet,      \* what claimMapper.GetClaims returns for this call's AuthInfo
    pc,             \* position of the call inside Interceptor
    ctx,            \* the local variable ctx (rebound by context.WithValue)
    claims,         \* the local variable claims
    audience,       \* the local variable audience
    events,         \* collaborator operations of this call, in order
    getClaimsArgs,  \* AuthInfo of every GetClaims invocation
    authorizeArgs,  \* (ctx, claims, callTarget) of every Authorize invocation
    authorizeRets,  \* (Result, error) of every Authorize invocation
    handlerArgs,    \* (ctx, req) of every invocation of the next handler
    handlerRets,    \* (resp, error) of every invocation of the next handler
    metricsRec,     \* every recording on a metrics handle
    logged,         \* every error given to logger.Error
    ret,            \* what Interceptor returned: <<>> until it returns
    status,         \* service.status
    starts,         \* per caller of start: position, locals and what it did
    stops           \* per caller of stop: position and what it did

vars == <<a, ctx0, req, info, mapperRet, pc, ctx, claims, audience, events,
          getClaimsArgs, authorizeArgs, authorizeRets, handlerArgs,
          handlerRets, metricsRec, logged, ret, status, starts, stops>>

interceptorVars ==
    <<a, ctx0, req, info, mapperRet, pc, ctx, claims, audience, events,
      getClaimsArgs, authorizeArgs, authorizeRets, handlerArgs,
      handlerRets, metricsRec, logged, ret>>

svcVars == <<status, starts, stops>>

(***************************************************************************)
(* Bounds of the model.                                                    *)
(***************************************************************************)
MaxHeaderValues == 2
NumStartCalls == 2
NumStopCalls == 2

(***************************************************************************)
(* Program constants.                                                      *)
(***************************************************************************)
RequestUnauthorized == "Request unauthorized."

NilError == [code |-> "nil", Message |-> "", Reason |-> ""]

NewPermissionDenied(message, reason) ==
    [code |-> "PermissionDenied", Message |-> message, Reason |-> reason]

errUnauthorized == NewPermissionDenied(RequestUnauthorized, "")

MappedClaims == "MappedClaims"
AuthHeader == "AuthHeader"

DecisionDeny == "DecisionDeny"
DecisionAllow == "DecisionAllow"
DecisionUnset == "DecisionUnset"

AuthorizationScope == "Authorization"
ServiceErrAuthorizeFailedCounter == "ServiceErrAuthorizeFailedCounter"
ServiceErrUnauthorizedCounter == "ServiceErrUnauthorizedCounter"
ServiceAuthorizationLatency == "ServiceAuthorizationLatency"
NamespaceUnknownTag == "_namespace_unknown_"

\* Number of times the bootstrap list is refreshed and a join is tried
maxBootstrapRetries == 5

DaemonStatusInitialized == "Initialized"
DaemonStatusStarted == "Started"
DaemonStatusStopped == "Stopped"

(***************************************************************************)
(* Input domains.                                                          *)
(***************************************************************************)
SeqsUpTo(S, n) == UNION {[1..k -> S] : k \in 0..n}

HeaderValues == {"", "tokA"}
ExtraHeaderLists == {<<>>, <<"extA">>, <<"extA", "extB">>}

\* metadata.FromIncomingContext: ok = FALSE when the context carries no metadata
Metadatas ==
    {[ok |-> FALSE, auth |-> <<>>, extra |-> <<>>]} \cup
    {[ok |-> TRUE, auth |-> h, extra |-> x] :
        h \in SeqsUpTo(HeaderValues, MaxHeaderValues), x \in ExtraHeaderLists}

Cert(subject) == [Subject |-> subject]

\* peer.FromContext and the peer's AuthInfo
Peers ==
    {[kind |-> "none", VerifiedChains |-> <<>>],
     [kind |-> "insecure", VerifiedChains |-> <<>>],
     [kind |-> "tls", VerifiedChains |-> <<>>],
     [kind |-> "tls", VerifiedChains |-> << <<Cert("CN=client"), Cert("CN=ca")>> >>],
     [kind |-> "tls", VerifiedChains |-> << <<Cert("CN=client")>>, <<Cert("CN=other")>> >>],
     [kind |-> "tls", VerifiedChains |-> << <<>>, <<Cert("CN=other")>> >>]}

Contexts == {[md |-> m, peer |-> p, values |-> {}] : m \in Metadatas, p \in Peers}

\* a request and the method it is a call of
Calls ==
    {[req |-> [hasNamespace |-> TRUE, namespace |-> "ns1"], method |-> "/svc/Start"],
     [req |-> [hasNamespace |-> TRUE, namespace |-> ""], method |-> "/svc/Start"],
     [req |-> [hasNamespace |-> FALSE, namespace |-> ""], method |-> "/svc/GetSystemInfo"]}

\* claimMapper: "nil", a mapper without the AuthInfoRequired capability, or
\* one whose AuthInfoRequired() returns TRUE / FALSE
ClaimMappers == {"nil", "plain", "required", "optional"}

Interceptors ==
    [claimMapper : ClaimMappers, authorizer : BOOLEAN, audienceGetter : BOOLEAN]

MapperError == [code |-> "Internal", Message |-> "token expired", Reason |-> "kid 7"]
AuthorizerError == [code |-> "Unavailable", Message |-> "policy store down", Reason |-> "db1"]
HandlerError == [code |-> "NotFound", Message |-> "workflow not found", Reason |-> ""]

GetClaimsReturns ==
    {[claims |-> "nil", err |-> MapperError],
     [claims |-> "claimsA", err |-> NilError],
     [claims |-> "claimsB", err |-> NilError]}

AuthorizeReturns ==
    {[result |-> [Decision |-> d, Reason |-> r], err |-> NilError] :
        d \in {DecisionUnset, DecisionDeny, DecisionAllow}, r \in {"", "missing scope"}}
    \cup
    {[result |-> [Decision |-> DecisionAllow, Reason |-> "missing scope"],
      err |-> AuthorizerError]}

HandlerReturns ==
    {[resp |-> "resp1", err |-> NilError], [resp |-> "nil", err |-> HandlerError]}

Audiences == {"aud1", "aud2"}

(***************************************************************************)
(* Helpers of the handler.                                                 *)
(***************************************************************************)

\* peer.FromContext, then the type test p.AuthInfo.(credentials.TLSInfo)
TLSInfoFormContext(c) ==
    IF c.peer.kind = "none" THEN <<>>
    ELSE IF c.peer.kind = "tls"
         THEN << [State |-> [VerifiedChains |-> c.peer.VerifiedChains]] >>
         ELSE <<>>

\* faulty variant of PeerCert: the last certificate of the chain (the root end)
PeerCertLastOfChain(tlsInfo) ==
    IF tlsInfo = <<>>
       \/ Len(tlsInfo[1].State.VerifiedChains) = 0
       \/ Len(tlsInfo[1].State.VerifiedChains[1]) = 0
    THEN <<>>
    ELSE << tlsInfo[1].State.VerifiedChains[1][Len(tlsInfo[1].State.VerifiedChains[1])] >>

\* the leaf of the first verified chain, or nil
PeerCert(tlsInfo) ==
    IF tlsInfo = <<>>
       \/ Len(tlsInfo[1].State.VerifiedChains) = 0
       \/ Len(tlsInfo[1].State.VerifiedChains[1]) = 0
    THEN <<>>
    ELSE << tlsInfo[1].State.VerifiedChains[1][1] >>

\* tlsSubject = &clientCert.Subject when clientCert != nil
TLSSubjectOf(clientCert) ==
    IF clientCert # <<>> THEN << clientCert[1].Subject >> ELSE <<>>

\* md[a.authHeaderName] and md[a.authExtraHeaderName]; nil without metadata
AuthHeadersOf(c) == IF c.md.ok THEN c.md.auth ELSE <<>>
AuthExtraHeadersOf(c) == IF c.md.ok THEN c.md.extra ELSE <<>>

\* authInfoRequired: true unless the mapper has the capability and says false
AuthInfoRequired(claimMapper) ==
    IF claimMapper \in {"required", "optional"}
    THEN claimMapper = "required"
    ELSE TRUE

MapperEnabled(cfg) == cfg.claimMapper # "nil" /\ cfg.authorizer

\* faulty variant of HasAuthInfo: the mapper's declaration is ignored
HasAuthInfoEvidenceOnly(tlsSubject, authHeaders, authInfoRequired) ==
    tlsSubject # <<>> \/ Len(authHeaders) > 0

\* the condition under which the claim mapper is consulted
HasAuthInfo(tlsSubject, authHeaders, authInfoRequired) ==
    tlsSubject # <<>> \/ Len(authHeaders) > 0 \/ ~authInfoRequired

\* faulty variant of FirstValue: the last value wins
LastValue(headers) == IF Len(headers) > 0 THEN headers[Len(headers)] ELSE ""

\* the first value of a header, "" when the header is absent
FirstValue(headers) == IF Len(headers) > 0 THEN headers[1] ELSE ""

\* context.WithValue and ctx.Value (the set of values under key: {} or {v})
WithValue(c, key, val) ==
    [c EXCEPT !.values = {p \in @ : p[1] # key} \cup {<<key, val>>}]

Value(c, key) == {p[2] : p \in {q \in c.values : q[1] = key}}

\* faulty variant of AttachClaims: the header is attached even when empty
AttachClaimsAndHeaderAlways(c, mappedClaims, authHeader) ==
    WithValue(WithValue(c, MappedClaims, mappedClaims), AuthHeader, authHeader)

\* the context after a successful mapping
AttachClaims(c, mappedClaims, authHeader) ==
    IF authHeader # ""
    THEN WithValue(WithValue(c, MappedClaims, mappedClaims), AuthHeader, authHeader)
    ELSE WithValue(c, MappedClaims, mappedClaims)

\* faulty variant of GetClaimsFailedError: the mapper's error is returned
GetClaimsFailedErrorDisclosing(err) == err

\* what the caller gets when GetClaims fails
GetClaimsFailedError(err) == errUnauthorized

\* faulty variant of AuthorizeFailedError: the error text becomes the detail
AuthorizeFailedErrorDisclosing(err) == NewPermissionDenied(RequestUnauthorized, err.Message)

\* what the caller gets when Authorize fails
AuthorizeFailedError(err) == errUnauthorized

\* faulty variant of Denied: only an explicit Deny is rejected
DeniedOnlyOnDeny(result) == result.Decision = DecisionDeny

\* the decision check
Denied(result) == result.Decision # DecisionAllow

\* faulty variant of DeniedError: the Reason is dropped
DeniedErrorWithoutReason(result) == errUnauthorized

\* what the caller gets on a decision other than Allow
DeniedError(result) ==
    IF result.Reason # ""
    THEN NewPermissionDenied(RequestUnauthorized, result.Reason)
    ELSE errUnauthorized

\* faulty variant of DeniedCounter: denials counted as failures
DeniedCounterSameAsFailed == ServiceErrAuthorizeFailedCounter

\* the counter of a decision other than Allow
DeniedCounter == ServiceErrUnauthorizedCounter

\* the counter of an Authorize error
FailedCounter == ServiceErrAuthorizeFailedCounter

\* the namespace of the request, "" when it has no GetNamespace
NamespaceOf(r) == IF r.hasNamespace THEN r.namespace ELSE ""

\* faulty variant of getMetricsHandler: the namespace tag is never set
getMetricsHandlerUntagged(operation, namespace) ==
    [operation |-> operation, namespace |-> NamespaceUnknownTag]

\* the metrics handle, identified by its tags
getMetricsHandler(operation, namespace) ==
    IF namespace # ""
    THEN [operation |-> operation, namespace |-> namespace]
    ELSE [operation |-> operation, namespace |-> NamespaceUnknownTag]

\* faulty variant of ForwardContext: the incoming context is forwarded
ForwardContextOriginal(c0, c) == c0

\* the context the next handler is called with
ForwardContext(c0, c) == c

\* faulty variant of HandlerReturn: a handler error is masked
HandlerReturnMasked(h) ==
    IF h.err # NilError THEN [resp |-> "nil", err |-> errUnauthorized] ELSE h

\* what Interceptor returns after the next handler returned h
HandlerReturn(h) == h

\* faulty variant of NewAuthInfo: the Audience field is left unset
NewAuthInfoWithoutAudience(authHeader, tlsSubject, tlsConnection, authExtraHeader, aud) ==
    [AuthToken |-> authHeader,
     TLSSubject |-> tlsSubject,
     TLSConnection |-> tlsConnection,
     ExtraData |-> authExtraHeader,
     Audience |-> ""]

\* the AuthInfo given to GetClaims
NewAuthInfo(authHeader, tlsSubject, tlsConnection, authExtraHeader, aud) ==
    [AuthToken |-> authHeader,
     TLSSubject |-> tlsSubject,
     TLSConnection |-> tlsConnection,
     ExtraData |-> authExtraHeader,
     Audience |-> aud]

\* faulty variant of GetClaimsFailedNext: the return is missing
GetClaimsFailedFallsThrough(cfg) == IF cfg.authorizer THEN "authorize" ELSE "forward"

\* where the call continues after a GetClaims error: it returns
GetClaimsFailedNext(cfg) == "done"

\* faulty variant of authorizeDeferred: latency recorded only when Authorize succeeds
authorizeRecordsOnSuccess(metricsHandler, r) ==
    IF r.err = NilError
    THEN << [handler |-> metricsHandler, kind |-> "Timer",
             name |-> ServiceAuthorizationLatency] >>
    ELSE <<>>

\* what the deferred function of a.authorize records when Authorize returned r
authorizeDeferred(metricsHandler, r) ==
    << [handler |-> metricsHandler, kind |-> "Timer",
        name |-> ServiceAuthorizationLatency] >>

(***************************************************************************)
(* The ringpop service: callers and the state a call of start or stop      *)
(* begins in.                                                              *)
(***************************************************************************)
StartCallers == 1..NumStartCalls
StopCallers == 1..NumStopCalls

NoStatus == "none"

\* a call of start that has not begun: pc, the status its CompareAndSwap
\* met, the stop calls begun before it, the attempts of ThrottleRetry, the
\* calls of the host retriever (made, succeeded) and of Ringpop.Bootstrap,
\* the warnings logged, the failed attempts, the last error of op and the
\* value returned ("none" until it returns)
NewStartCall ==
    [pc |-> "idle", saw |-> NoStatus, stopsBefore |-> 0, attempts |-> 0,
     retrieved |-> 0, retrievedOk |-> 0, joined |-> 0, warned |-> 0,
     failed |-> 0, lastErr |-> "nil", ret |-> "none"]

\* a call of stop that has not begun
NewStopCall == [pc |-> "idle", saw |-> NoStatus, destroyed |-> 0]

(***************************************************************************)
(* The state after construction and at the start of a call.                *)
(***************************************************************************)
Init ==
    /\ status = DaemonStatusInitialized
    /\ starts = [t \in StartCallers |-> NewStartCall]
    /\ stops = [p \in StopCallers |-> NewStopCall]
    /\ a \in Interceptors
    /\ ctx0 \in Contexts
    /\ \E c \in Calls : req = c.req /\ info = [FullMethod |-> c.method]
    /\ mapperRet \in GetClaimsReturns
    /\ pc = "start"
    /\ ctx = ctx0
    /\ claims = "nil"
    /\ audience = ""
    /\ events = <<>>
    /\ getClaimsArgs = <<>>
    /\ authorizeArgs = <<>>
    /\ authorizeRets = <<>>
    /\ handlerArgs = <<>>
    /\ handlerRets = <<>>
    /\ metricsRec = <<>>
    /\ logged = <<>>
    /\ ret = <<>>

config == <<a, ctx0, req, info, mapperRet>>

(***************************************************************************)
(* Interceptor, up to the decision whether to consult the claim mapper.    *)
(***************************************************************************)
GatherEvidence ==
    /\ pc = "start"
    /\ LET tlsSubject == TLSSubjectOf(PeerCert(TLSInfoFormContext(ctx)))
           mapping == /\ MapperEnabled(a)
                      /\ HasAuthInfo(tlsSubject, AuthHeadersOf(ctx),
                                     AuthInfoRequired(a.claimMapper))
       IN pc' = IF mapping
                THEN (IF a.audienceGetter THEN "audience" ELSE "getClaims")
                ELSE (IF a.authorizer THEN "authorize" ELSE "forward")
    /\ UNCHANGED <<svcVars, config, ctx, claims, audience, events, getClaimsArgs,
                   authorizeArgs, authorizeRets, handlerArgs, handlerRets,
                   metricsRec, logged, ret>>

\* audience = a.audienceGetter.Audience(ctx, req, info)
ResolveAudience ==
    /\ pc = "audience"
    /\ \E aud \in Audiences : audience' = aud
    /\ events' = Append(events, "Audience")
    /\ pc' = "getClaims"
    /\ UNCHANGED <<svcVars, config, ctx, claims, getClaimsArgs, authorizeArgs,
                   authorizeRets, handlerArgs, handlerRets, metricsRec,
                   logged, ret>>

\* the AuthInfo is built, GetClaims is called, and its result is acted on
GetClaims ==
    /\ pc = "getClaims"
    /\ LET tlsConnection == TLSInfoFormContext(ctx)
           authHeader == FirstValue(AuthHeadersOf(ctx))
           authInfo == NewAuthInfo(authHeader,
                                   TLSSubjectOf(PeerCert(tlsConnection)),
                                   tlsConnection,
                                   FirstValue(AuthExtraHeadersOf(ctx)),
                                   audience)
       IN /\ getClaimsArgs' = Append(getClaimsArgs, authInfo)
          /\ IF mapperRet.err # NilError
             THEN /\ events' = events \o <<"GetClaims", "Log">>
                  /\ logged' = Append(logged, mapperRet.err)
                  /\ ret' = << [resp |-> "nil",
                                err |-> GetClaimsFailedError(mapperRet.err)] >>
                  /\ pc' = GetClaimsFailedNext(a)
                  /\ UNCHANGED <<ctx, claims>>
             ELSE /\ events' = Append(events, "GetClaims")
                  /\ claims' = mapperRet.claims
                  /\ ctx' = AttachClaims(ctx, mapperRet.claims, authHeader)
                  /\ pc' = IF a.authorizer THEN "authorize" ELSE "forward"
                  /\ UNCHANGED <<logged, ret>>
    /\ UNCHANGED <<svcVars, config, audience, authorizeArgs, authorizeRets,
                   handlerArgs, handlerRets, metricsRec>>

\* a.authorize (with its deferred latency recording) and the enforcement
Authorize ==
    /\ pc = "authorize"
    /\ \E r \in AuthorizeReturns :
        LET namespace == NamespaceOf(req)
            handler == getMetricsHandler(AuthorizationScope, namespace)
            callTarget == [Namespace |-> namespace,
                           APIName |-> info.FullMethod,
                           Request |-> req]
            latency == authorizeDeferred(handler, r)
            timed == <<"Authorize">> \o [i \in DOMAIN latency |-> "Timer"]
            counter(n) == [handler |-> handler, kind |-> "Counter", name |-> n]
        IN /\ authorizeArgs' = Append(authorizeArgs,
                [ctx |-> ctx, claims |-> claims, callTarget |-> callTarget])
           /\ authorizeRets' = Append(authorizeRets, r)
           /\ IF r.err # NilError
              THEN /\ events' = events \o timed \o <<"Counter", "Log">>
                   /\ metricsRec' = metricsRec \o latency \o <<counter(FailedCounter)>>
                   /\ logged' = Append(logged, r.err)
                   /\ ret' = << [resp |-> "nil", err |-> AuthorizeFailedError(r.err)] >>
                   /\ pc' = "done"
              ELSE IF Denied(r.result)
              THEN /\ events' = events \o timed \o <<"Counter">>
                   /\ metricsRec' = metricsRec \o latency \o <<counter(DeniedCounter)>>
                   /\ ret' = << [resp |-> "nil", err |-> DeniedError(r.result)] >>
                   /\ pc' = "done"
                   /\ UNCHANGED logged
              ELSE /\ events' = events \o timed
                   /\ metricsRec' = metricsRec \o latency
                   /\ pc' = "forward"
                   /\ UNCHANGED <<logged, ret>>
    /\ UNCHANGED <<svcVars, config, ctx, claims, audience, getClaimsArgs,
                   handlerArgs, handlerRets>>

\* return handler(ctx, req)
Forward ==
    /\ pc = "forward"
    /\ \E h \in HandlerReturns :
        /\ handlerArgs' = Append(handlerArgs,
                [ctx |-> ForwardContext(ctx0, ctx), req |-> req])
        /\ handlerRets' = Append(handlerRets, h)
        /\ ret' = << HandlerReturn(h) >>
    /\ events' = Append(events, "Handler")
    /\ pc' = "done"
    /\ UNCHANGED <<svcVars, config, ctx, claims, audience, getClaimsArgs,
                   authorizeArgs, authorizeRets, metricsRec, logged>>

Next ==
    \/ GatherEvidence
    \/ ResolveAudience
    \/ GetClaims
    \/ Authorize
    \/ Forward

Spec == Init /\ [][Next]_vars

(***************************************************************************)
(* The ringpop service wrapper.                                            *)
(***************************************************************************)

\* faulty variant of startSwaps: start proceeds unless the service is stopped
startSwapsUnlessStopped(st) == st # DaemonStatusStopped

\* CompareAndSwapInt32(&r.status, Initialized, Started) succeeds
startSwaps(st) == st = DaemonStatusInitialized

\* faulty variant of stopSwaps: stop proceeds unless the service is stopped
stopSwapsUnlessStopped(st) == st # DaemonStatusStopped

\* CompareAndSwapInt32(&r.status, Started, Stopped) succeeds
stopSwaps(st) == st = DaemonStatusStarted

\* faulty variant of opJoins: the retriever's error is not checked
opJoinsRegardless(retrieverOk) == TRUE

\* op goes on to Ringpop.Bootstrap only when the host retriever succeeded
opJoins(retrieverOk) == retrieverOk

\* ThrottleRetry under a policy WithMaximumAttempts(maxBootstrapRetries):
\* no further attempt once that many have been made
retryExhausted(numAttempts) == numAttempts >= maxBootstrapRetries

\* fmt.Errorf("exhausted all retries: %w", err)
ExhaustedError(err) ==
    IF err = "retrieverErr"
    THEN "exhausted all retries: retrieverErr"
    ELSE "exhausted all retries: joinErr"

\* op returned err on the attempt that made c.attempts attempts: retry or give up
AfterFailedAttempt(c, err) ==
    IF retryExhausted(c.attempts)
    THEN [c EXCEPT !.failed = @ + 1, !.lastErr = err,
                   !.pc = "returned", !.ret = ExhaustedError(err)]
    ELSE [c EXCEPT !.failed = @ + 1, !.lastErr = err, !.pc = "retrieve"]

\* start, up to the call of bootstrap
StartCall(t) ==
    /\ starts[t].pc = "idle"
    /\ LET seen == [starts[t] EXCEPT
                        !.saw = status,
                        !.stopsBefore = Cardinality(
                            {p \in StopCallers : stops[p].pc = "returned"})]
       IN IF startSwaps(status)
          THEN /\ status' = DaemonStatusStarted
               /\ starts' = [starts EXCEPT ![t] = [seen EXCEPT !.pc = "retrieve"]]
          ELSE /\ starts' = [starts EXCEPT ![t] =
                                [seen EXCEPT !.pc = "returned", !.ret = "nil"]]
               /\ UNCHANGED status
    /\ UNCHANGED <<interceptorVars, stops>>

\* op, first half: hostPorts, err := bootstrapHostPostRetriever()
Retrieve(t) ==
    /\ starts[t].pc = "retrieve"
    /\ \E ok \in BOOLEAN :
        LET c == [starts[t] EXCEPT
                    !.attempts = @ + 1,
                    !.retrieved = @ + 1,
                    !.retrievedOk = IF ok THEN @ + 1 ELSE @]
        IN starts' = [starts EXCEPT ![t] =
                        IF opJoins(ok)
                        THEN [c EXCEPT !.pc = "join"]
                        ELSE AfterFailedAttempt(c, "retrieverErr")]
    /\ UNCHANGED <<interceptorVars, status, stops>>

\* op, second half: _, err = r.Ringpop.Bootstrap(bootParams)
Join(t) ==
    /\ starts[t].pc = "join"
    /\ \E ok \in BOOLEAN :
        LET c == [starts[t] EXCEPT !.joined = @ + 1]
        IN starts' = [starts EXCEPT ![t] =
                        IF ok
                        THEN [c EXCEPT !.pc = "returned", !.ret = "nil"]
                        ELSE AfterFailedAttempt([c EXCEPT !.warned = @ + 1],
                                                "joinErr")]
    /\ UNCHANGED <<interceptorVars, status, stops>>

\* stop, up to the call of Destroy
StopCall(p) ==
    /\ stops[p].pc = "idle"
    /\ IF stopSwaps(status)
       THEN /\ status' = DaemonStatusStopped
            /\ stops' = [stops EXCEPT ![p] =
                            [@ EXCEPT !.pc = "destroy", !.saw = status]]
       ELSE /\ stops' = [stops EXCEPT ![p] =
                            [@ EXCEPT !.pc = "returned", !.saw = status]]
            /\ UNCHANGED status
    /\ UNCHANGED <<interceptorVars, starts>>

\* r.Destroy()
Destroy(p) ==
    /\ stops[p].pc = "destroy"
    /\ stops' = [stops EXCEPT ![p] =
                    [@ EXCEPT !.pc = "returned", !.destroyed = @ + 1]]
    /\ UNCHANGED <<interceptorVars, status, starts>>

\* newService, with the interceptor at the start of a call
SvcInit ==
    /\ status = DaemonStatusInitialized
    /\ starts = [t \in StartCallers |-> NewStartCall]
    /\ stops = [p \in StopCallers |-> NewStopCall]
    /\ a = [claimMapper |-> "nil", authorizer |-> FALSE, audienceGetter |-> FALSE]
    /\ ctx0 = [md |-> [ok |-> FALSE, auth |-> <<>>, extra |-> <<>>],
               peer |-> [kind |-> "none", VerifiedChains |-> <<>>],
               values |-> {}]
    /\ req = [hasNamespace |-> FALSE, namespace |-> ""]
    /\ info = [FullMethod |-> "/svc/GetSystemInfo"]
    /\ mapperRet = [claims |-> "claimsA", err |-> NilError]
    /\ pc = "start"
    /\ ctx = ctx0
    /\ claims = "nil"
    /\ audience = ""
    /\ events = <<>>
    /\ getClaimsArgs = <<>>
    /\ authorizeArgs = <<>>
    /\ authorizeRets = <<>>
    /\ handlerArgs = <<>>
    /\ handlerRets = <<>>
    /\ metricsRec = <<>>
    /\ logged = <<>>
    /\ ret = <<>>

SvcNext ==
    \/ \E t \in StartCallers : StartCall(t)
    \/ \E t \in StartCallers : Retrieve(t)
    \/ \E t \in StartCallers : Join(t)
    \/ \E p \in StopCallers : StopCall(p)
    \/ \E p \in StopCallers : Destroy(p)

SvcSpec == SvcInit /\ [][SvcNext]_vars

(***************************************************************************)
(* Vocabulary of the properties, stated on the call's inputs and on what   *)
(* was observed, not through the helpers of the handler.                   *)
(***************************************************************************)
Done == pc = "done"

BothConfigured == a.claimMapper # "nil" /\ a.authorizer

\* the call has a verified client certificate: the first verified chain has a leaf
CertificateFound ==
    /\ ctx0.peer.kind = "tls"
    /\ Len(ctx0.peer.VerifiedChains) > 0
    /\ Len(ctx0.peer.VerifiedChains[1]) > 0

LeafSubject == ctx0.peer.VerifiedChains[1][1].Subject

PrimaryHeaderPresent == ctx0.md.ok /\ Len(ctx0.md.auth) > 0

PrimaryHeaderValue == IF PrimaryHeaderPresent THEN ctx0.md.auth[1] ELSE ""

NoHeaders == ~ctx0.md.ok \/ (Len(ctx0.md.auth) = 0 /\ Len(ctx0.md.extra) = 0)

\* the mapper declares evidence required, by capability or by default
EvidenceRequired == a.claimMapper \in {"plain", "required"}

\* every context a collaborator below the interceptor was given
ContextsSeen ==
    {authorizeArgs[i].ctx : i \in DOMAIN authorizeArgs}
    \cup {handlerArgs[i].ctx : i \in DOMAIN handlerArgs}

CountersRecorded == SelectSeq(metricsRec, LAMBDA m : m.kind = "Counter")

GenericRejection == << [resp |-> "nil", err |-> errUnauthorized] >>

Allowed(r) == r.err = NilError /\ r.result.Decision = DecisionAllow

\* the four error categories of a call
EvidenceAbsent == BothConfigured /\ ~CertificateFound /\ ~PrimaryHeaderPresent
MappingFailed == Len(getClaimsArgs) > 0 /\ mapperRet.err # NilError
AuthorizeFailed == Len(authorizeRets) > 0 /\ authorizeRets[1].err # NilError
AuthorizeDenied ==
    /\ Len(authorizeRets) > 0
    /\ authorizeRets[1].err = NilError
    /\ authorizeRets[1].result.Decision # DecisionAllow

(***************************************************************************)
(* C1: with an Authorizer configured, the next handler is invoked at most  *)
(* once, and only after an Authorize of the same call that returned no     *)
(* error and Decision = Allow; a nil error with another Decision never     *)
(* leads to the handler.                                                   *)
(***************************************************************************)
C1_HandlerOnlyAfterAllow ==
    a.authorizer =>
        /\ Len(handlerArgs) <= 1
        /\ Len(authorizeRets) <= 1
        /\ (Len(handlerArgs) > 0 \/ pc = "forward") =>
                (Len(authorizeRets) = 1 /\ Allowed(authorizeRets[1]))

C1_Witness ==
    /\ a.authorizer
    /\ a.claimMapper = "nil"
    /\ Len(handlerArgs) = 1
    /\ Done

(***************************************************************************)
(* C2: a rejected call returns either the generic "Request unauthorized."  *)
(* permission-denied error without detail, or a permission-denied error    *)
(* carrying the Authorizer's non-empty Reason, whatever errors GetClaims   *)
(* or Authorize returned.                                                  *)
(***************************************************************************)
C2_RejectionShapes ==
    (Done /\ Len(handlerArgs) = 0) =>
        /\ Len(ret) = 1
        /\ ret[1].resp = "nil"
        /\ \/ ret[1].err = errUnauthorized
           \/ /\ Len(authorizeRets) = 1
              /\ authorizeRets[1].result.Reason # ""
              /\ ret[1].err = NewPermissionDenied(RequestUnauthorized,
                                                  authorizeRets[1].result.Reason)

C2_Witness ==
    /\ Done
    /\ Len(handlerArgs) = 0
    /\ AuthorizeFailed
    /\ logged = <<AuthorizerError>>
    /\ ret = GenericRejection

(***************************************************************************)
(* C3, as stated: whenever a Claim Mapper is configured whose GetClaims    *)
(* returns an error, the call ends in the generic error and the handler is *)
(* never invoked.                                                          *)
(***************************************************************************)
C3_AsStated ==
    (a.claimMapper # "nil" /\ mapperRet.err # NilError) =>
        /\ Len(handlerArgs) = 0
        /\ Done => ret = GenericRejection

(***************************************************************************)
(* C3, amended: when both a Claim Mapper and an Authorizer are configured  *)
(* and the mapper is consulted (a certificate subject or a primary header  *)
(* value is present, or the mapper declares evidence not required), a      *)
(* GetClaims error ends the call in the generic error; neither Authorize   *)
(* nor the handler is invoked.                                             *)
(***************************************************************************)
C3_MappingFailureRejects ==
    (/\ BothConfigured
     /\ CertificateFound \/ PrimaryHeaderPresent \/ a.claimMapper = "optional"
     /\ mapperRet.err # NilError) =>
        /\ Len(handlerArgs) = 0
        /\ Len(authorizeArgs) = 0
        /\ pc # "authorize" /\ pc # "forward"
        /\ Done => ret = GenericRejection

C3_Witness ==
    /\ Done
    /\ MappingFailed
    /\ logged = <<MapperError>>

(***************************************************************************)
(* C4: with neither a Claim Mapper nor an Authorizer configured the        *)
(* handler is invoked exactly once with the original context and request,  *)
(* its result and error are returned verbatim, and the interceptor does no *)
(* GetClaims, Audience, Authorize, logger or metrics operation.            *)
(***************************************************************************)
C4_OpenAccessForwards ==
    (a.claimMapper = "nil" /\ ~a.authorizer) =>
        /\ events \in {<<>>, <<"Handler">>}
        /\ getClaimsArgs = <<>> /\ authorizeArgs = <<>>
        /\ metricsRec = <<>> /\ logged = <<>>
        /\ Len(handlerArgs) <= 1
        /\ Done =>
            /\ handlerArgs = << [ctx |-> ctx0, req |-> req] >>
            /\ Len(handlerRets) = 1
            /\ ret = << handlerRets[1] >>

C4_Witness ==
    /\ a.claimMapper = "nil" /\ ~a.authorizer
    /\ Done
    /\ ret = << [resp |-> "nil", err |-> HandlerError] >>

(***************************************************************************)
(* C5, as stated: with a verified client certificate and a Claim Mapper    *)
(* that declares evidence required, GetClaims is always invoked, with      *)
(* TLSSubject the subject of the leaf of the first verified chain.         *)
(***************************************************************************)
C5_AsStated ==
    (CertificateFound /\ a.claimMapper = "required" /\ Done) =>
        /\ Len(getClaimsArgs) = 1
        /\ getClaimsArgs[1].TLSSubject = <<LeafSubject>>

(***************************************************************************)
(* C5, amended: with a verified client certificate, a Claim Mapper that    *)
(* declares evidence required and an Authorizer configured, GetClaims is   *)
(* always invoked, with TLSSubject the subject of the leaf of the first    *)
(* verified chain.                                                         *)
(***************************************************************************)
C5_CertificateIsMapped ==
    (CertificateFound /\ a.claimMapper = "required" /\ a.authorizer) =>
        /\ pc \in {"authorize", "forward", "done"} => Len(getClaimsArgs) = 1
        /\ \A i \in DOMAIN getClaimsArgs :
                getClaimsArgs[i].TLSSubject = <<LeafSubject>>

C5_Witness ==
    /\ CertificateFound /\ a.claimMapper = "required" /\ a.authorizer
    /\ Len(ctx0.peer.VerifiedChains[1]) > 1
    /\ Done
    /\ Len(getClaimsArgs) = 1

(***************************************************************************)
(* C6: with both a Claim Mapper and an Authorizer configured, GetClaims is *)
(* invoked if and only if a certificate subject was found, or a primary    *)
(* header value was present, or the mapper declares evidence not required  *)
(* (no capability counts as required); when it is not invoked, Authorize   *)
(* receives nil claims and nothing is attached to the context.             *)
(***************************************************************************)
C6_MappingDecision ==
    BothConfigured =>
        LET consulted == \/ CertificateFound
                         \/ PrimaryHeaderPresent
                         \/ a.claimMapper = "optional"
        IN /\ Len(getClaimsArgs) <= 1
           /\ Len(getClaimsArgs) = 1 => consulted
           /\ pc \in {"authorize", "forward", "done"} =>
                    (Len(getClaimsArgs) = 1 <=> consulted)
           /\ ~consulted =>
                /\ ctx = ctx0
                /\ \A i \in DOMAIN authorizeArgs :
                        /\ authorizeArgs[i].claims = "nil"
                        /\ authorizeArgs[i].ctx = ctx0
                /\ \A i \in DOMAIN handlerArgs : handlerArgs[i].ctx = ctx0
                /\ Done => Len(authorizeArgs) = 1

C6_Witness ==
    /\ BothConfigured
    /\ ~CertificateFound /\ ~PrimaryHeaderPresent /\ EvidenceRequired
    /\ Len(authorizeArgs) = 1
    /\ Len(getClaimsArgs) = 0
    /\ Done

C8_AllowedCallCarriesClaims ==
    (/\ Len(getClaimsArgs) = 1 /\ mapperRet.err = NilError
     /\ Len(authorizeRets) = 1 /\ Allowed(authorizeRets[1])
     /\ Done) =>
        /\ Len(handlerArgs) = 1
        /\ handlerArgs[1].req = req
        /\ {p \in handlerArgs[1].ctx.values : p[1] = MappedClaims}
                = {<<MappedClaims, mapperRet.claims>>}
        /\ {p \in handlerArgs[1].ctx.values : p[1] = AuthHeader}
                = IF PrimaryHeaderValue # ""
                  THEN {<<AuthHeader, PrimaryHeaderValue>>}
                  ELSE {}
        /\ handlerArgs[1].ctx.md = ctx0.md /\ handlerArgs[1].ctx.peer = ctx0.peer
        /\ ret = << handlerRets[1] >>

C8_Witness ==
    /\ Len(getClaimsArgs) = 1 /\ mapperRet.claims = "claimsB"
    /\ Len(authorizeRets) = 1 /\ Allowed(authorizeRets[1])
    /\ PrimaryHeaderValue = "tokA"
    /\ Done
    /\ ret = << [resp |-> "resp1", err |-> NilError] >>

(***************************************************************************)
(* C9: when the Authorizer returns no error and a Decision other than      *)
(* Allow, the caller gets a permission-denied error whose detail is the    *)
(* Reason if it is non-empty and the generic error otherwise; the          *)
(* unauthorized counter is incremented exactly once and the handler is     *)
(* never invoked.                                                          *)
(***************************************************************************)
C9_DeniedCall ==
    AuthorizeDenied =>
        LET r == authorizeRets[1].result
        IN /\ Done
           /\ Len(handlerArgs) = 0
           /\ ret = << [resp |-> "nil",
                        err |-> IF r.Reason # ""
                                THEN [code |-> "PermissionDenied",
                                      Message |-> "Request unauthorized.",
                                      Reason |-> r.Reason]
                                ELSE [code |-> "PermissionDenied",
                                      Message |-> "Request unauthorized.",
                                      Reason |-> ""]] >>
           /\ Len(SelectSeq(metricsRec, LAMBDA m :
                    m.kind = "Counter" /\ m.name = ServiceErrUnauthorizedCounter)) = 1

C9_Witness ==
    /\ AuthorizeDenied
    /\ authorizeRets[1].result = [Decision |-> DecisionDeny, Reason |-> "missing scope"]
    /\ Len(getClaimsArgs) = 1
    /\ Done

(***************************************************************************)
(* C10, as stated: each of the four error categories (absence of evidence, *)
(* claim-mapping failure, authorization-evaluation failure, authorization  *)
(* denied) increments a metrics counter when it occurs in a call, and the  *)
(* counters of different categories are distinct.                          *)
(***************************************************************************)
C10_AsStated ==
    Done =>
        /\ EvidenceAbsent => Len(CountersRecorded) > 0
        /\ MappingFailed => Len(CountersRecorded) > 0
        /\ AuthorizeFailed =>
                \E i \in DOMAIN CountersRecorded :
                    CountersRecorded[i].name = ServiceErrAuthorizeFailedCounter
        /\ AuthorizeDenied =>
                \E i \in DOMAIN CountersRecorded :
                    CountersRecorded[i].name = ServiceErrUnauthorizedCounter

(***************************************************************************)
(* C10, amended: only two of the four categories increment a counter: an   *)
(* authorization-evaluation failure increments the authorize-failed        *)
(* counter once and an authorization denial increments the unauthorized    *)
(* counter once, and these two counters are distinct; absence of evidence  *)
(* and a claim-mapping failure increment no counter (the mapping failure   *)
(* is only logged).                                                        *)
(***************************************************************************)
C10_CountersOfCategories ==
    LET names == [i \in DOMAIN CountersRecorded |-> CountersRecorded[i].name]
    IN /\ AuthorizeFailed => names = <<ServiceErrAuthorizeFailedCounter>>
       /\ AuthorizeDenied => names = <<ServiceErrUnauthorizedCounter>>
       /\ ~(AuthorizeFailed \/ AuthorizeDenied) => names = <<>>
       /\ MappingFailed => (names = <<>> /\ logged = <<mapperRet.err>>)
       /\ (AuthorizeFailed /\ AuthorizeDenied) => FALSE
       /\ \A n \in {names[i] : i \in DOMAIN names} :
            \/ (AuthorizeFailed /\ n # ServiceErrUnauthorizedCounter)
            \/ (AuthorizeDenied /\ n # ServiceErrAuthorizeFailedCounter)

C10_Witness ==
    /\ Done
    /\ EvidenceAbsent
    /\ AuthorizeFailed
    /\ Len(CountersRecorded) = 1

(***************************************************************************)
(* Vocabulary of the ordering properties.                                  *)
(***************************************************************************)
Positions(e) == {i \in DOMAIN events : events[i] = e}

AllThreeConfigured == BothConfigured /\ a.audienceGetter

\* the inputs under which the claim mapper is consulted
MapperConsulted ==
    CertificateFound \/ PrimaryHeaderPresent \/ a.claimMapper = "optional"

ExtraHeaderValue ==
    IF ctx0.md.ok /\ Len(ctx0.md.extra) > 0 THEN ctx0.md.extra[1] ELSE ""

RequestNamespace == IF req.hasNamespace THEN req.namespace ELSE ""

TimersRecorded == SelectSeq(metricsRec, LAMBDA m : m.kind = "Timer")

\* the collaborator calls of the pass, in the order they were made
CorePass ==
    SelectSeq(events, LAMBDA e : e \in {"GetClaims", "Authorize", "Handler"})

CoreRank(e) == IF e = "GetClaims" THEN 1 ELSE IF e = "Authorize" THEN 2 ELSE 3

PcRank(p) ==
    IF p = "start" THEN 0
    ELSE IF p = "audience" THEN 1
    ELSE IF p = "getClaims" THEN 2
    ELSE IF p = "authorize" THEN 3
    ELSE IF p = "forward" THEN 4
    ELSE 5

(***************************************************************************)
(* C11, as stated: whenever an Audience Resolver, a Claim Mapper and an    *)
(* Authorizer are all configured, Audience is invoked exactly once, before *)
(* GetClaims, and its result is the AuthInfo.Audience given to GetClaims;  *)
(* whenever the Claim Mapper or the Authorizer is not configured, Audience *)
(* is never invoked.                                                       *)
(***************************************************************************)
C11_AsStated ==
    /\ (AllThreeConfigured /\ Done) =>
            /\ Cardinality(Positions("Audience")) = 1
            /\ Len(getClaimsArgs) = 1
            /\ getClaimsArgs[1].Audience = audience
    /\ ~BothConfigured => Positions("Audience") = {}

(***************************************************************************)
(* C11, amended: when an Audience Resolver, a Claim Mapper and an          *)
(* Authorizer are all configured and the mapper is consulted (a            *)
(* certificate subject or a primary header value is present, or the mapper *)
(* declares evidence not required), Audience is invoked exactly once,      *)
(* before GetClaims, and its result is the AuthInfo.Audience given to      *)
(* GetClaims; when the Claim Mapper or the Authorizer is not configured,   *)
(* or the mapper is not consulted, Audience is never invoked.              *)
(***************************************************************************)
C11_AudienceBeforeMapping ==
    /\ Cardinality(Positions("Audience")) <= 1
    /\ \A i \in Positions("Audience") : \A j \in Positions("GetClaims") : i < j
    /\ (AllThreeConfigured /\ MapperConsulted) =>
            /\ pc \in {"getClaims", "authorize", "forward", "done"} =>
                    (Cardinality(Positions("Audience")) = 1 /\ audience \in Audiences)
            /\ pc \in {"authorize", "forward", "done"} => Len(getClaimsArgs) = 1
            /\ \A i \in DOMAIN getClaimsArgs : getClaimsArgs[i].Audience = audience
    /\ (~BothConfigured \/ ~MapperConsulted) => Positions("Audience") = {}

C11_Witness ==
    /\ AllThreeConfigured
    /\ Done
    /\ events[1] = "Audience"
    /\ getClaimsArgs[1].Audience = "aud2"

(***************************************************************************)
(* C12: every Authorize is followed by exactly one latency recording on    *)
(* the call's scoped metrics handle, whether Authorize returned an error,  *)
(* a decision other than Allow, or Allow, and before the call is forwarded *)
(* or rejected; a call without Authorize records no latency.               *)
(***************************************************************************)
C12_LatencyAlwaysRecorded ==
    /\ Len(TimersRecorded) = Len(authorizeArgs)
    /\ Cardinality(Positions("Timer")) = Cardinality(Positions("Authorize"))
    /\ \A i \in Positions("Authorize") : i < Len(events) /\ events[i + 1] = "Timer"
    /\ \A i \in Positions("Timer") :
            \A j \in Positions("Handler") \cup Positions("Counter") \cup Positions("Log") :
                i < j
    /\ \A i \in DOMAIN TimersRecorded :
            /\ TimersRecorded[i].name = ServiceAuthorizationLatency
            /\ TimersRecorded[i].handler.operation = AuthorizationScope
            /\ TimersRecorded[i].handler.namespace
                    = IF RequestNamespace # "" THEN RequestNamespace
                      ELSE NamespaceUnknownTag
    /\ (Done /\ Len(ret) = 1 /\ Len(authorizeArgs) = 1) => Len(TimersRecorded) = 1

C12_Witness ==
    /\ Done
    /\ AuthorizeFailed
    /\ Len(TimersRecorded) = 1
    /\ events = <<"Authorize", "Timer", "Counter", "Log">>

(***************************************************************************)
(* C13: with an Authorizer configured, CallTarget.Namespace is the         *)
(* namespace the request exposes (empty if it exposes none),               *)
(* CallTarget.APIName is the full method name, and every metric of the     *)
(* call is recorded on a handle tagged with that namespace when it is      *)
(* non-empty and with the unknown-namespace tag exactly when it is empty.  *)
(***************************************************************************)
C13_TargetAndMetricsScope ==
    a.authorizer =>
        /\ \A i \in DOMAIN authorizeArgs :
                /\ authorizeArgs[i].callTarget.Namespace = RequestNamespace
                /\ authorizeArgs[i].callTarget.APIName = info.FullMethod
                /\ authorizeArgs[i].callTarget.Request = req
        /\ \A i \in DOMAIN metricsRec :
                /\ metricsRec[i].handler.operation = AuthorizationScope
                /\ RequestNamespace # "" =>
                        metricsRec[i].handler.namespace = RequestNamespace
                /\ RequestNamespace = "" <=>
                        metricsRec[i].handler.namespace = NamespaceUnknownTag
        /\ Len(authorizeArgs) > 0 => Len(metricsRec) > 0

C13_Witness ==
    /\ a.authorizer
    /\ RequestNamespace = "ns1"
    /\ AuthorizeDenied
    /\ Len(metricsRec) = 2
    /\ metricsRec[2].handler.namespace = "ns1"

(***************************************************************************)
(* C14, as stated: whenever GetClaims is invoked, AuthToken is the first   *)
(* value of the primary header and ExtraData the first value of the extra  *)
(* header (empty when absent); with no certificate, no headers and a       *)
(* mapper declaring evidence not required, GetClaims is still invoked,     *)
(* with empty AuthToken, empty ExtraData and absent TLSSubject.            *)
(***************************************************************************)
C14_AsStated ==
    /\ \A i \in DOMAIN getClaimsArgs :
            /\ getClaimsArgs[i].AuthToken = PrimaryHeaderValue
            /\ getClaimsArgs[i].ExtraData = ExtraHeaderValue
    /\ (~CertificateFound /\ NoHeaders /\ a.claimMapper = "optional" /\ Done) =>
            /\ Len(getClaimsArgs) = 1
            /\ getClaimsArgs[1].AuthToken = ""
            /\ getClaimsArgs[1].ExtraData = ""
            /\ getClaimsArgs[1].TLSSubject = <<>>

(***************************************************************************)
(* C14, amended: whenever GetClaims is invoked, AuthToken is the first     *)
(* value of the primary header and ExtraData the first value of the extra  *)
(* header (empty when absent); with no certificate, no headers, a mapper   *)
(* declaring evidence not required and an Authorizer configured, GetClaims *)
(* is still invoked, with empty AuthToken, empty ExtraData and absent      *)
(* TLSSubject.                                                             *)
(***************************************************************************)
C14_FirstHeaderValues ==
    /\ \A i \in DOMAIN getClaimsArgs :
            /\ getClaimsArgs[i].AuthToken = PrimaryHeaderValue
            /\ getClaimsArgs[i].ExtraData = ExtraHeaderValue
    /\ (~CertificateFound /\ NoHeaders /\ a.claimMapper = "optional"
            /\ a.authorizer /\ pc \in {"authorize", "forward", "done"}) =>
            /\ Len(getClaimsArgs) = 1
            /\ getClaimsArgs[1].AuthToken = ""
            /\ getClaimsArgs[1].ExtraData = ""
            /\ getClaimsArgs[1].TLSSubject = <<>>

C14_Witness ==
    /\ Len(getClaimsArgs) = 1
    /\ ctx0.md.auth = <<"tokA", "">>
    /\ ctx0.md.extra = <<"extA", "extB">>
    /\ getClaimsArgs[1].AuthToken = "tokA"
    /\ getClaimsArgs[1].ExtraData = "extA"

(***************************************************************************)
(* C16: a call is one linear pass: GetClaims, Authorize and the handler    *)
(* are each invoked at most once and only in that order; after a GetClaims *)
(* error neither Authorize nor the handler is invoked, after an Authorize  *)
(* error or a decision other than Allow the handler is not invoked; the    *)
(* call always has a next step until it ends, it ends in exactly one of    *)
(* forward or reject, and no step is taken twice.                          *)
(***************************************************************************)
C16_PassInvariant ==
    /\ \A i, j \in DOMAIN CorePass :
            i < j => CoreRank(CorePass[i]) < CoreRank(CorePass[j])
    /\ Len(getClaimsArgs) = Cardinality(Positions("GetClaims"))
    /\ Len(authorizeArgs) = Cardinality(Positions("Authorize"))
    /\ Len(handlerArgs) = Cardinality(Positions("Handler"))
    /\ MappingFailed => (Len(authorizeArgs) = 0 /\ Len(handlerArgs) = 0)
    /\ (AuthorizeFailed \/ AuthorizeDenied) => Len(handlerArgs) = 0
    /\ Done =>
        /\ Len(ret) = 1
        /\ \/ /\ Len(handlerArgs) = 1
              /\ events[Len(events)] = "Handler"
              /\ ret = << handlerRets[1] >>
           \/ /\ Len(handlerArgs) = 0
              /\ ret[1].resp = "nil"
              /\ ret[1].err.code = "PermissionDenied"
    /\ ~Done => (Len(ret) = 0 /\ ENABLED Next)

C16_LinearPass ==
    /\ []C16_PassInvariant
    /\ [][PcRank(pc') > PcRank(pc)]_vars

C16_Witness ==
    /\ Done
    /\ CorePass = <<"GetClaims", "Authorize", "Handler">>

(***************************************************************************)
(* Vocabulary of the ringpop service properties.                           *)
(***************************************************************************)

\* the start call is inside the retry loop of bootstrap
InBootstrap(t) == starts[t].pc \in {"retrieve", "join"}

\* the start call entered bootstrap
Bootstrapped(t) == InBootstrap(t) \/ starts[t].attempts > 0

\* the start call returned without entering bootstrap
ReturnedAtOnce(t) ==
    /\ starts[t].pc = "returned"
    /\ starts[t].ret = "nil"
    /\ starts[t].retrieved = 0
    /\ starts[t].joined = 0

\* bootstrap returned an error
BootstrapFailed(t) == starts[t].ret \notin {"none", "nil"}

\* the stop call reached Destroy
ReachedDestroy(p) == stops[p].pc = "destroy" \/ stops[p].destroyed > 0

\* the stop call has invoked Destroy
Destroyed(p) == stops[p].destroyed > 0

(***************************************************************************)
(* C17: among any number of start calls, at most one runs bootstrap, the   *)
(* one that moved the status from Initialized to Started; every other one  *)
(* returns nil without a call of the host retriever or Ringpop.Bootstrap,  *)
(* also when the bootstrap failed or is still in progress.                 *)
(***************************************************************************)
C17_SingleBootstrap ==
    /\ Cardinality({t \in StartCallers : Bootstrapped(t)}) <= 1
    /\ \A t \in StartCallers :
        /\ Bootstrapped(t) => starts[t].saw = DaemonStatusInitialized
        /\ (starts[t].pc # "idle" /\ starts[t].saw # DaemonStatusInitialized)
                => ReturnedAtOnce(t)
        /\ (starts[t].pc # "idle" /\ starts[t].saw = DaemonStatusInitialized)
                => Bootstrapped(t) \/ starts[t].pc = "retrieve"
    /\ \A t, u \in StartCallers :
        (t # u /\ Bootstrapped(t) /\ starts[u].pc # "idle") => ReturnedAtOnce(u)

C17_Witness ==
    \E t, u \in StartCallers :
        /\ t # u
        /\ BootstrapFailed(t)
        /\ ReturnedAtOnce(u)
        /\ starts[u].saw = DaemonStatusStarted

C19_AsStated ==
    /\ Cardinality({p \in StopCallers : ReachedDestroy(p)}) <= 1
    /\ \A p \in StopCallers :
        /\ stops[p].destroyed <= 1
        /\ ReachedDestroy(p) => stops[p].saw = DaemonStatusStarted
    /\ \A t \in StartCallers : starts[t].stopsBefore > 0 => ~Bootstrapped(t)

(***************************************************************************)
(* C19: the status only moves Initialized -> Started -> Stopped; Destroy   *)
(* is invoked at most once and only by the stop call that moved the status *)
(* from Started to Stopped; a stop that finds the status Initialized does  *)
(* nothing and leaves it Initialized; a start issued once a stop has moved *)
(* the status to Stopped never bootstraps.                                 *)
(***************************************************************************)
C19_LifecycleInvariant ==
    /\ Cardinality({p \in StopCallers : ReachedDestroy(p)}) <= 1
    /\ (\E p \in StopCallers : ReachedDestroy(p)) <=> status = DaemonStatusStopped
    /\ \A p \in StopCallers :
        /\ stops[p].destroyed <= 1
        /\ ReachedDestroy(p) <=> stops[p].saw = DaemonStatusStarted
        /\ stops[p].saw \in {DaemonStatusInitialized, DaemonStatusStopped} =>
                (stops[p].pc = "returned" /\ ~Destroyed(p))
    /\ \A t \in StartCallers :
        starts[t].saw = DaemonStatusStopped => ReturnedAtOnce(t)

C19_StatusStep ==
    /\ status' # status =>
        \/ status = DaemonStatusInitialized /\ status' = DaemonStatusStarted
        \/ status = DaemonStatusStarted /\ status' = DaemonStatusStopped
    /\ \A p \in StopCallers :
        (stops[p].pc = "idle" /\ stops'[p].pc # "idle"
            /\ status = DaemonStatusInitialized) =>
                status' = DaemonStatusInitialized
    /\ \A t \in StartCallers :
        (starts[t].pc = "idle" /\ starts'[t].pc # "idle"
            /\ status = DaemonStatusStopped) =>
                (status' = DaemonStatusStopped /\ ~Bootstrapped(t)')

C19_Lifecycle ==
    /\ []C19_LifecycleInvariant
    /\ [][C19_StatusStep]_vars

C19_Witness ==
    /\ status = DaemonStatusStopped
    /\ \E p, q \in StopCallers :
        /\ stops[p].saw = DaemonStatusInitialized
        /\ stops[p].pc = "returned"
        /\ Destroyed(q)
    /\ \E t, u \in StartCallers :
        /\ Bootstrapped(t)
        /\ starts[t].stopsBefore > 0
        /\ starts[u].saw = DaemonStatusStopped
        /\ ReturnedAtOnce(u)

(***************************************************************************)
(* C20, as stated: Destroy is never invoked while the retry loop of        *)
(* bootstrap is in progress; once a stop call has invoked Destroy, no      *)
(* start call is left with an attempt of the loop to make.                 *)
(***************************************************************************)
C20_AsStated ==
    \A p \in StopCallers : \A t \in StartCallers :
        Destroyed(p) => ~InBootstrap(t)

====
